---------------------------- MODULE Spec2Model ----------------------------
(***************************************************************************)
(* Iron-condor example strategies of the repository.                       *)
(*                                                                         *)
(*   program = "framework"   nautilus_trader/examples/strategies/          *)
(*                           iron_condor.py (class IronCondor)             *)
(*   program = "standalone"  strategies/iron_condor.py (class IronCondor)  *)
(*                                                                         *)
(* One run hosts one of the two strategies.  Money amounts are integers in *)
(* cents (a Decimal with two places); the widths and the OTM distance of   *)
(* the configuration are whole dollars, as the config types them (int).    *)
(* Expiries and the clock are day numbers; expiry 0 stands for the empty   *)
(* string that _get_next_monthly_expiry returns when it finds no expiry.   *)
(***************************************************************************)
EXTENDS Integers, Sequences, FiniteSets, TLC

VARIABLES
    program,             \* which strategy class this run hosts
    config,              \* IronCondorConfig: call_width, put_width, otm_distance, trade_size
    subscribed,          \* subscribe_bars / unsubscribe_bars: bars are delivered
    option_chain,        \* self.option_chain: None or the chain object with its expiries
    is_position_opened,  \* self.is_position_opened (framework)
    entry_price,         \* self.entry_price (framework)
    max_profit,          \* self.max_profit (framework)
    position_open,       \* self.position_open (standalone)
    orders,              \* every order handed to submit_order, with its status
    now,                 \* self.clock.utc_now()
    last,                \* the last handler that ran, with its inputs
    sel_in,              \* a computation on its own (strikes, expiry, identifier): the inputs
    sel_out,             \* a computation on its own: the result
    instances,           \* several IronCondor instances side by side, one per underlying
    delivered_to,        \* the underlying whose instance received the last event
    macd,                \* the MACDStrategy of run_iron_condor.py with its indicator
    talib                \* the TALibStrategy of talib_strategy.py with its last bar

vars == <<program, config, subscribed, option_chain, is_position_opened,
          entry_price, max_profit, position_open, orders, now, last,
          sel_in, sel_out, instances, delivered_to, macd, talib>>

strategy_vars == <<program, config, subscribed, option_chain, is_position_opened,
                   entry_price, max_profit, position_open, orders, now, last>>

select_vars == <<sel_in, sel_out>>

other_vars == <<instances, delivered_to, macd, talib>>

-----------------------------------------------------------------------------
(* Bounds of the model *)

MaxOrders == 8
MaxTime == 1
MaxRejected == 1
MaxPriceStep == 20
MaxParam == 2
MaxDay == 4
MaxExpiries == 3

\* bar.close values, in cents: a price between two strikes (SelectPrices
\* ranges over many more for the claims about the strikes themselves)
Prices == {450030}

\* position.unrealized_pnl values, in cents
Pnls == {-1, 0, 1}

\* what ib_provider.option_chain() can hand back at on_start:
\* a chain with one expiry, a chain listing two expiries out of order
Snapshots == {<<1>>, <<2, 1>>}

\* Python's None, and a held chain object with its expiries
None == [held |-> FALSE, expiries |-> <<>>]
Chain(expiries) == [held |-> TRUE, expiries |-> expiries]

-----------------------------------------------------------------------------
(* The parts of the state a run does not use stay as they are here *)

NoInstances == <<>>
NoUnderlying == ""
NoMacd == [by |-> "none"]
NoTalib == [by |-> "none"]

PairIdle == instances = NoInstances /\ delivered_to = NoUnderlying
MacdIdle == macd = NoMacd
TalibIdle == talib = NoTalib

-----------------------------------------------------------------------------
(* Configuration *)

DefaultConfig ==
    [call_width |-> 10, put_width |-> 10, otm_distance |-> 20, trade_size |-> 1]

\* the configurations a run is started with
Configs == {DefaultConfig}

Symbol == "SPX"

\* self.instrument_id: the underlying
UnderlyingId == [symbol |-> Symbol, expiry |-> 0, right |-> "", strike |-> 0, venue |-> "CBOE"]

-----------------------------------------------------------------------------
(* Strike selection *)

\* Decimal("0.5"), in cents
StrikeInterval == 50

\* Python's round(x) of n/d for d > 0: nearest integer, ties to the even one
RoundHalfEven(n, d) ==
    LET q == n \div d
        r == n % d
    IN  IF 2 * r < d THEN q
        ELSE IF 2 * r > d THEN q + 1
        ELSE IF q % 2 = 0 THEN q ELSE q + 1

\* round(price / strike_interval) * strike_interval
calculate_strike(price) == RoundHalfEven(price, StrikeInterval) * StrikeInterval

\* FrameworkStrikes with the long put placed above the short put (a sign slip)
FrameworkStrikesLongPutAbove(close, cfg) ==
    LET short_put_strike == calculate_strike(close - 100 * cfg.otm_distance)
        short_call_strike == calculate_strike(close + 100 * cfg.otm_distance)
    IN  [short_put  |-> short_put_strike,
         long_put   |-> short_put_strike + 100 * cfg.put_width,
         short_call |-> short_call_strike,
         long_call  |-> short_call_strike + 100 * cfg.call_width]

\* check_entry_signals, lines 129-135: the four strikes of the framework strategy
FrameworkStrikes(close, cfg) ==
    LET short_put_strike == calculate_strike(close - 100 * cfg.otm_distance)
        short_call_strike == calculate_strike(close + 100 * cfg.otm_distance)
    IN  [short_put  |-> short_put_strike,
         long_put   |-> short_put_strike - 100 * cfg.put_width,
         short_call |-> short_call_strike,
         long_call  |-> short_call_strike + 100 * cfg.call_width]

\* _enter_iron_condor, lines 77-83: the four strikes of the standalone strategy
StandaloneStrikes(close, cfg) ==
    LET short_call_strike == close + 100 * cfg.otm_distance
        short_put_strike == close - 100 * cfg.otm_distance
    IN  [short_put  |-> short_put_strike,
         long_put   |-> short_put_strike - 100 * cfg.put_width,
         short_call |-> short_call_strike,
         long_call  |-> short_call_strike + 100 * cfg.call_width]

-----------------------------------------------------------------------------
(* Expiry selection and option identifiers *)

RECURSIVE Insert(_, _)
Insert(e, s) ==
    IF s = <<>> THEN <<e>>
    ELSE IF e <= Head(s) THEN <<e>> \o s
    ELSE <<Head(s)>> \o Insert(e, Tail(s))

\* sorted(expiries)
RECURSIVE Sorted(_)
Sorted(s) == IF s = <<>> THEN <<>> ELSE Insert(Head(s), Sorted(Tail(s)))

\* the for loop of _get_next_monthly_expiry over the sorted expiries
RECURSIVE FirstAfter(_, _)
FirstAfter(s, t) ==
    IF s = <<>> THEN 0
    ELSE IF Head(s) > t THEN Head(s)
    ELSE FirstAfter(Tail(s), t)

\* an object is truthy unless it is None
Truthy(chain) == chain.held

\* _get_next_monthly_expiry without the sort of line 265
get_next_monthly_expiry_unsorted(chain, t) ==
    IF ~Truthy(chain) THEN 0 ELSE FirstAfter(chain.expiries, t)

\* _get_next_monthly_expiry with the clock reading t
get_next_monthly_expiry(chain, t) ==
    IF ~Truthy(chain) THEN 0 ELSE FirstAfter(Sorted(chain.expiries), t)

get_put_option_id(chain, t, strike) ==
    [symbol |-> Symbol, expiry |-> get_next_monthly_expiry(chain, t),
     right |-> "P", strike |-> strike, venue |-> "SMART"]

get_call_option_id(chain, t, strike) ==
    [symbol |-> Symbol, expiry |-> get_next_monthly_expiry(chain, t),
     right |-> "C", strike |-> strike, venue |-> "SMART"]

-----------------------------------------------------------------------------
(* Orders *)

\* order_factory.market(...) followed by submit_order(...); batch numbers the
\* handler invocation that submitted the order (bookkeeping of the model)
MarketOrder(inst, side, qty, b, reduce) ==
    [instrument_id |-> inst, order_side |-> side, quantity |-> qty,
     status |-> "SUBMITTED", reduce_only |-> reduce, batch |-> b]

NextBatch(ords) == IF ords = <<>> THEN 1 ELSE ords[Len(ords)].batch + 1

Signed(o) == IF o.order_side = "BUY" THEN o.quantity ELSE -o.quantity

\* net position of an instrument: the filled orders, signed
RECURSIVE NetPosition(_, _)
NetPosition(ords, inst) ==
    IF ords = <<>> THEN 0
    ELSE (IF Head(ords).instrument_id = inst /\ Head(ords).status = "FILLED"
          THEN Signed(Head(ords)) ELSE 0) + NetPosition(Tail(ords), inst)

\* sell_put_spread: short put SELL, long put BUY; ts[1], ts[2] are the clock
\* readings of the two identifier look-ups
sell_put_spread(chain, ts, short_strike, long_strike, qty, b) ==
    << MarketOrder(get_put_option_id(chain, ts[1], short_strike), "SELL", qty, b, FALSE),
       MarketOrder(get_put_option_id(chain, ts[2], long_strike), "BUY", qty, b, FALSE) >>

\* sell_call_spread with the long call bought in twice the size
sell_call_spread_long_leg_doubled(chain, ts, short_strike, long_strike, qty, b) ==
    << MarketOrder(get_call_option_id(chain, ts[3], short_strike), "SELL", qty, b, FALSE),
       MarketOrder(get_call_option_id(chain, ts[4], long_strike), "BUY", 2 * qty, b, FALSE) >>

\* sell_call_spread: short call SELL, long call BUY
sell_call_spread(chain, ts, short_strike, long_strike, qty, b) ==
    << MarketOrder(get_call_option_id(chain, ts[3], short_strike), "SELL", qty, b, FALSE),
       MarketOrder(get_call_option_id(chain, ts[4], long_strike), "BUY", qty, b, FALSE) >>

\* cancel_all_orders: every order still working is cancelled
cancel_all_orders(ords) ==
    [i \in 1..Len(ords) |->
        IF ords[i].status = "SUBMITTED"
        THEN [ords[i] EXCEPT !.status = "CANCELED"] ELSE ords[i]]

\* close_all_positions: one offsetting market order per open position, in the
\* order the positions were opened
RECURSIVE ClosingOrders(_, _, _, _)
ClosingOrders(ords, i, b, acc) ==
    IF i > Len(ords) THEN acc
    ELSE LET inst == ords[i].instrument_id
             seen == \E j \in 1..(i - 1) : ords[j].instrument_id = inst
             net == NetPosition(ords, inst)
         IN  IF seen \/ net = 0
             THEN ClosingOrders(ords, i + 1, b, acc)
             ELSE ClosingOrders(ords, i + 1, b,
                     Append(acc, MarketOrder(inst, IF net > 0 THEN "SELL" ELSE "BUY",
                                             IF net > 0 THEN net ELSE -net, b, TRUE)))

close_all_positions(ords) == ords \o ClosingOrders(ords, 1, NextBatch(ords), <<>>)

-----------------------------------------------------------------------------
(* The framework strategy *)

\* the clock readings of the four identifier look-ups of one entry: the live
\* clock may advance between two of them (by one tick at most in the model)
ClockReads(t) ==
    {ts \in [1..4 -> {u \in {t, t + 1} : u <= MaxTime}] : \A i \in 1..3 : ts[i] <= ts[i + 1]}

\* check_entry_signals with the guard of line 126 inverted
check_entry_signals_guard_inverted(close, ts) ==
    IF ~is_position_opened THEN orders
    ELSE LET k == FrameworkStrikes(close, config)
             b == NextBatch(orders)
         IN  orders
             \o sell_put_spread(option_chain, ts, k.short_put, k.long_put, config.trade_size, b)
             \o sell_call_spread(option_chain, ts, k.short_call, k.long_call, config.trade_size, b)

\* check_entry_signals: the orders after the call
check_entry_signals(close, ts) ==
    IF is_position_opened THEN orders
    ELSE LET k == FrameworkStrikes(close, config)
             b == NextBatch(orders)
         IN  orders
             \o sell_put_spread(option_chain, ts, k.short_put, k.long_put, config.trade_size, b)
             \o sell_call_spread(option_chain, ts, k.short_call, k.long_call, config.trade_size, b)

\* the two exit tests of check_exit_signals, max_profit * 0.5 and -max_profit * 2.0
ProfitTargetReached(pnl, mp) == 2 * pnl >= mp
StopLossHit(pnl, mp) == pnl <= -2 * mp

\* check_exit_signals decides to close
ExitPosition(flat, pnl) ==
    /\ is_position_opened
    /\ ~flat
    /\ (ProfitTargetReached(pnl, max_profit) \/ StopLossHit(pnl, max_profit))

on_start ==
    /\ program = "framework"
    /\ ~subscribed
    /\ subscribed' = TRUE
    /\ \E chain \in {None} \cup {Chain(e) : e \in Snapshots} : option_chain' = chain
    /\ last' = [op |-> "on_start", flat |-> TRUE, pnl |-> 0]
    /\ UNCHANGED <<program, config, is_position_opened, entry_price, max_profit,
                   position_open, orders, now, select_vars, other_vars>>

\* portfolio.is_flat(self.instrument_id) asks about the underlying, which this
\* strategy never trades (every leg order names an option): flat is an input,
\* as are bar.close and position.unrealized_pnl
on_bar ==
    /\ program = "framework"
    /\ subscribed
    /\ \E close \in Prices, flat \in BOOLEAN :
       \E pnl \in (IF flat THEN {0} ELSE Pnls) :
          /\ last' = [op |-> "on_bar", flat |-> flat, pnl |-> pnl]
          /\ IF ~Truthy(option_chain)
             THEN UNCHANGED <<orders, now, is_position_opened>>
             ELSE IF flat
             THEN /\ \E ts \in ClockReads(now) :
                        /\ orders' = check_entry_signals(close, ts)
                        /\ now' = IF is_position_opened THEN now ELSE ts[4]
                  /\ UNCHANGED is_position_opened
             ELSE /\ orders' = IF ExitPosition(flat, pnl)
                               THEN close_all_positions(orders) ELSE orders
                  /\ is_position_opened' = IF ExitPosition(flat, pnl)
                                           THEN FALSE ELSE is_position_opened
                  /\ UNCHANGED now
    /\ Len(orders') <= MaxOrders
    /\ UNCHANGED <<program, config, subscribed, option_chain, entry_price, max_profit,
                   position_open, select_vars, other_vars>>

on_stop ==
    /\ program = "framework"
    /\ subscribed
    /\ orders' = close_all_positions(cancel_all_orders(orders))
    /\ Len(orders') <= MaxOrders
    /\ subscribed' = FALSE
    /\ last' = [op |-> "on_stop", flat |-> TRUE, pnl |-> 0]
    /\ UNCHANGED <<program, config, option_chain, is_position_opened, entry_price,
                   max_profit, position_open, now, select_vars, other_vars>>

\* on_reset with the chain snapshot left in place
on_reset_keeps_chain ==
    /\ program = "framework"
    /\ ~subscribed
    /\ is_position_opened' = FALSE
    /\ entry_price' = 0
    /\ max_profit' = 0
    /\ last' = [op |-> "on_reset", flat |-> TRUE, pnl |-> 0]
    /\ UNCHANGED <<program, config, subscribed, option_chain, position_open, orders, now,
                   select_vars, other_vars>>

on_reset ==
    /\ program = "framework"
    /\ ~subscribed
    /\ option_chain' = None
    /\ is_position_opened' = FALSE
    /\ entry_price' = 0
    /\ max_profit' = 0
    /\ last' = [op |-> "on_reset", flat |-> TRUE, pnl |-> 0]
    /\ UNCHANGED <<program, config, subscribed, position_open, orders, now, select_vars, other_vars>>

-----------------------------------------------------------------------------
(* The standalone strategy *)

\* _entry_conditions_met
entry_conditions_met(close) == TRUE

\* _enter_iron_condor with the last submission (the protective put) left out
enter_iron_condor_three_legs(close) ==
    LET b == NextBatch(orders)
        q == config.trade_size
    IN  orders \o << MarketOrder(UnderlyingId, "SELL", q, b, FALSE),
                     MarketOrder(UnderlyingId, "BUY", q, b, FALSE),
                     MarketOrder(UnderlyingId, "SELL", q, b, FALSE) >>

\* _enter_iron_condor: four market orders on self.instrument_id
enter_iron_condor(close) ==
    LET b == NextBatch(orders)
        q == config.trade_size
    IN  orders \o << MarketOrder(UnderlyingId, "SELL", q, b, FALSE),
                     MarketOrder(UnderlyingId, "BUY", q, b, FALSE),
                     MarketOrder(UnderlyingId, "SELL", q, b, FALSE),
                     MarketOrder(UnderlyingId, "BUY", q, b, FALSE) >>

\* the instrument is found in the cache (on_start raises otherwise)
standalone_on_start ==
    /\ program = "standalone"
    /\ ~subscribed
    /\ subscribed' = TRUE
    /\ last' = [op |-> "on_start", flat |-> TRUE, pnl |-> 0]
    /\ UNCHANGED <<program, config, option_chain, is_position_opened, entry_price,
                   max_profit, position_open, orders, now, select_vars, other_vars>>

\* standalone_on_bar with _check_exit_conditions giving the position up
standalone_on_bar_exit_resets ==
    /\ program = "standalone"
    /\ subscribed
    /\ \E close \in Prices :
          /\ last' = [op |-> "on_bar", flat |-> TRUE, pnl |-> 0]
          /\ IF position_open
             THEN /\ position_open' = FALSE
                  /\ UNCHANGED orders
             ELSE IF entry_conditions_met(close)
             THEN /\ orders' = enter_iron_condor(close)
                  /\ position_open' = TRUE
             ELSE UNCHANGED <<orders, position_open>>
    /\ Len(orders') <= MaxOrders
    /\ UNCHANGED <<program, config, subscribed, option_chain, is_position_opened,
                   entry_price, max_profit, now, select_vars, other_vars>>

\* on_bar: the exit check while position_open, the entry otherwise
standalone_on_bar ==
    /\ program = "standalone"
    /\ subscribed
    /\ \E close \in Prices :
          /\ last' = [op |-> "on_bar", flat |-> TRUE, pnl |-> 0]
          /\ IF position_open
             THEN UNCHANGED <<orders, position_open>>   \* _check_exit_conditions: pass
             ELSE IF entry_conditions_met(close)
             THEN /\ orders' = enter_iron_condor(close)
                  /\ position_open' = TRUE
             ELSE UNCHANGED <<orders, position_open>>
    /\ Len(orders') <= MaxOrders
    /\ UNCHANGED <<program, config, subscribed, option_chain, is_position_opened,
                   entry_price, max_profit, now, select_vars, other_vars>>

-----------------------------------------------------------------------------
(* The collaborators: the execution gateway and the clock *)

\* a handler that books a leg's credit into max_profit on every event it is
\* handed
on_order_event_adds_credit(fields) ==
    <<fields[1], fields[2], fields[3], fields[4] + 1>>

\* an order event (filled, rejected) reaching the strategy: neither class
\* defines on_order_filled, on_order_rejected or on_event, so the fields
\* <<is_position_opened, position_open, entry_price, max_profit>> stay as
\* they are
on_order_event(fields) == fields

\* an order takes the event only while it is working
ApplyEvent(ords, i, status) ==
    IF ords[i].status = "SUBMITTED" THEN [ords EXCEPT ![i].status = status] ELSE ords

\* the oldest order still working: the gateway answers in submission order
Working(ords) == {i \in 1..Len(ords) : ords[i].status = "SUBMITTED"}
Oldest(ords) == CHOOSE i \in Working(ords) : \A j \in Working(ords) : i <= j
Rejected(ords) == {i \in 1..Len(ords) : ords[i].status = "REJECTED"}

Acknowledged(ords) == {i \in 1..Len(ords) : ords[i].status \in {"FILLED", "REJECTED"}}

\* the strategy's side of an order event
Delivered ==
    LET fields == on_order_event(<<is_position_opened, position_open, entry_price, max_profit>>)
    IN  /\ is_position_opened' = fields[1]
        /\ position_open' = fields[2]
        /\ entry_price' = fields[3]
        /\ max_profit' = fields[4]

OrderFilled ==
    /\ Working(orders) /= {}
    /\ orders' = ApplyEvent(orders, Oldest(orders), "FILLED")
    /\ Delivered
    /\ last' = [op |-> "event", flat |-> TRUE, pnl |-> 0]
    /\ UNCHANGED <<program, config, subscribed, option_chain, now, select_vars, other_vars>>

OrderRejected ==
    /\ Working(orders) /= {}
    /\ Cardinality(Rejected(orders)) < MaxRejected
    /\ orders' = ApplyEvent(orders, Oldest(orders), "REJECTED")
    /\ Delivered
    /\ last' = [op |-> "event", flat |-> TRUE, pnl |-> 0]
    /\ UNCHANGED <<program, config, subscribed, option_chain, now, select_vars, other_vars>>

\* the order the gateway answered last
Latest(ords) == CHOOSE i \in Acknowledged(ords) : \A j \in Acknowledged(ords) : j <= i

\* the gateway delivers its last answer once more
DuplicateAck ==
    /\ Acknowledged(orders) /= {}
    /\ orders' = ApplyEvent(orders, Latest(orders), orders[Latest(orders)].status)
    /\ Delivered
    /\ last' = [op |-> "duplicate", flat |-> TRUE, pnl |-> 0]
    /\ UNCHANGED <<program, config, subscribed, option_chain, now, select_vars, other_vars>>

Tick ==
    /\ now < MaxTime
    /\ now' = now + 1
    /\ last' = [op |-> "event", flat |-> TRUE, pnl |-> 0]
    /\ UNCHANGED <<program, config, subscribed, option_chain, is_position_opened,
                   entry_price, max_profit, position_open, orders, select_vars, other_vars>>

-----------------------------------------------------------------------------

NoStrikes == [by |-> "none", short_put |-> 0, long_put |-> 0, short_call |-> 0, long_call |-> 0]

NoSelection == [price |-> 0, config |-> DefaultConfig]

Init ==
    /\ program \in {"framework", "standalone"}
    /\ config \in Configs
    /\ subscribed = FALSE
    /\ option_chain = None
    /\ is_position_opened = FALSE
    /\ entry_price = 0
    /\ max_profit = 0
    /\ position_open = FALSE
    /\ orders = <<>>
    /\ now = 0
    /\ last = [op |-> "init", flat |-> TRUE, pnl |-> 0]
    /\ sel_in = NoSelection
    /\ sel_out = NoStrikes
    /\ PairIdle
    /\ MacdIdle
    /\ TalibIdle

Next ==
    \/ on_start
    \/ on_bar
    \/ on_stop
    \/ on_reset
    \/ standalone_on_start
    \/ standalone_on_bar
    \/ OrderFilled
    \/ OrderRejected
    \/ Tick

Spec == Init /\ [][Next]_vars

\* Expiry selection on its own: a snapshot listing up to MaxExpiries expiries
\* among the days 1..MaxDay, in any order and with repeats, and a clock reading
ExpiryLists == UNION {[1..n -> 1..MaxDay] : n \in 0..MaxExpiries}

NoExpiry == [by |-> "none", expiry |-> 0]

ExpiryInit ==
    /\ program = "framework"
    /\ config = DefaultConfig
    /\ subscribed = FALSE
    /\ option_chain = None
    /\ is_position_opened = FALSE
    /\ entry_price = 0
    /\ max_profit = 0
    /\ position_open = FALSE
    /\ orders = <<>>
    /\ now = 0
    /\ last = [op |-> "init", flat |-> TRUE, pnl |-> 0]
    /\ sel_in \in [expiries : ExpiryLists, as_of : 0..MaxDay]
    /\ sel_out = NoExpiry
    /\ PairIdle
    /\ MacdIdle
    /\ TalibIdle

SelectExpiry ==
    /\ sel_out.by = "none"
    /\ sel_out' = [by |-> "expiry",
                   expiry |-> get_next_monthly_expiry(Chain(sel_in.expiries), sel_in.as_of)]
    /\ UNCHANGED <<strategy_vars, sel_in, other_vars>>

ExpirySpec == ExpiryInit /\ [][SelectExpiry]_vars

\* The text of an option identifier
Digits == <<"0", "1", "2", "3", "4", "5", "6", "7", "8", "9">>

\* str(n) for n >= 0
RECURSIVE DecimalDigits(_)
DecimalDigits(n) ==
    IF n < 10 THEN Digits[n + 1] ELSE DecimalDigits(n \div 10) \o Digits[(n % 10) + 1]

\* the 0 flag of a format: zeros on the left up to the width, nothing cut
RECURSIVE ZeroPad(_, _)
ZeroPad(str, width) == IF Len(str) >= width THEN str ELSE ZeroPad("0" \o str, width)

\* expiry.strftime("%Y%m%d")
strftime_Ymd(date) ==
    ZeroPad(DecimalDigits(date.year), 4) \o ZeroPad(DecimalDigits(date.month), 2)
        \o ZeroPad(DecimalDigits(date.day), 2)

\* the number with three decimals, for a strike >= 0 in cents
ThreeDecimals(strike) ==
    DecimalDigits(strike \div 100) \o "." \o ZeroPad(DecimalDigits((strike % 100) * 10), 3)

\* f"{float(strike):08.3f}": three decimals, zeros on the left up to a width
\* of eight characters, the point and the decimals counted
format_strike(strike) == ZeroPad(ThreeDecimals(strike), 8)

\* InstrumentId.from_str(f"{symbol}{expiry}C{strike_str}.SMART"), as text: the
\* identifier is symbol-part "." venue, split at the last point
call_option_id_text(symbol, expiry, strike) ==
    symbol \o strftime_Ymd(expiry) \o "C" \o format_strike(strike) \o ".SMART"

put_option_id_text(symbol, expiry, strike) ==
    symbol \o strftime_Ymd(expiry) \o "P" \o format_strike(strike) \o ".SMART"

\* Identifier construction on its own: the underlying's symbol, the expiry
\* selected, the right and a strike in cents
FormatSymbols == {"AAPL", "SPX", "SPY"}

FormatDates ==
    {[year |-> 2024, month |-> 1, day |-> 19], [year |-> 2024, month |-> 2, day |-> 16],
     [year |-> 2024, month |-> 12, day |-> 20]}

FormatStrikes == {50, 15000, 450050, 1234550}

NoIdentifier == [by |-> "none", id |-> ""]

FormatInit ==
    /\ program = "framework"
    /\ config = DefaultConfig
    /\ subscribed = FALSE
    /\ option_chain = None
    /\ is_position_opened = FALSE
    /\ entry_price = 0
    /\ max_profit = 0
    /\ position_open = FALSE
    /\ orders = <<>>
    /\ now = 0
    /\ last = [op |-> "init", flat |-> TRUE, pnl |-> 0]
    /\ sel_in \in [symbol : FormatSymbols, expiry : FormatDates, right : {"C", "P"},
                    strike : FormatStrikes]
    /\ sel_out = NoIdentifier
    /\ PairIdle
    /\ MacdIdle
    /\ TalibIdle

ResolveCallId ==
    /\ sel_out.by = "none"
    /\ sel_in.right = "C"
    /\ sel_out' = [by |-> "id",
                   id |-> call_option_id_text(sel_in.symbol, sel_in.expiry, sel_in.strike)]
    /\ UNCHANGED <<strategy_vars, sel_in, other_vars>>

ResolvePutId ==
    /\ sel_out.by = "none"
    /\ sel_in.right = "P"
    /\ sel_out' = [by |-> "id",
                   id |-> put_option_id_text(sel_in.symbol, sel_in.expiry, sel_in.strike)]
    /\ UNCHANGED <<strategy_vars, sel_in, other_vars>>

FormatNext ==
    \/ ResolveCallId
    \/ ResolvePutId

FormatSpec == FormatInit /\ [][FormatNext]_vars

\* The runs of the framework strategy that begin where a bar has just been
\* turned away for want of a chain (on_start got None from the provider, and
\* on_bar returned at line 110); the chain is loaded again by the next on_start
RefreshInit ==
    /\ program = "framework"
    /\ config \in Configs
    /\ subscribed = TRUE
    /\ option_chain = None
    /\ is_position_opened = FALSE
    /\ entry_price = 0
    /\ max_profit = 0
    /\ position_open = FALSE
    /\ orders = <<>>
    /\ now = 0
    /\ last = [op |-> "on_bar", flat |-> TRUE, pnl |-> 0]
    /\ sel_in = NoSelection
    /\ sel_out = NoStrikes
    /\ PairIdle
    /\ MacdIdle
    /\ TalibIdle

RefreshNext ==
    \/ on_start
    \/ on_bar
    \/ on_stop
    \/ on_reset
    \/ OrderFilled
    \/ Tick

RefreshSpec == RefreshInit /\ [][RefreshNext]_vars

\* IronCondorConfig declares call_width, put_width and otm_distance as ints and
\* checks none of them, and __init__ copies them as they are: a strategy is
\* constructed from any integers
InvalidConfig ==
    [call_width |-> 0, put_width |-> -1, otm_distance |-> -1, trade_size |-> 1]

UncheckedConfigs == {DefaultConfig, InvalidConfig}

ConfigInit ==
    /\ program \in {"framework", "standalone"}
    /\ config \in UncheckedConfigs
    /\ subscribed = FALSE
    /\ option_chain = None
    /\ is_position_opened = FALSE
    /\ entry_price = 0
    /\ max_profit = 0
    /\ position_open = FALSE
    /\ orders = <<>>
    /\ now = 0
    /\ last = [op |-> "init", flat |-> TRUE, pnl |-> 0]
    /\ sel_in = NoSelection
    /\ sel_out = NoStrikes
    /\ PairIdle
    /\ MacdIdle
    /\ TalibIdle

ConfigSpec == ConfigInit /\ [][Next]_vars

\* The runs in which the gateway answers every leg with a fill, and may
\* deliver an answer twice
AckNext ==
    \/ on_start
    \/ on_bar
    \/ on_stop
    \/ on_reset
    \/ standalone_on_start
    \/ standalone_on_bar
    \/ OrderFilled
    \/ DuplicateAck
    \/ Tick

AckSpec == Init /\ [][AckNext]_vars

\* Several IronCondor instances side by side, one per underlying, each fed by
\* its own stream of events.  An instance is the attributes __init__ creates
\* on self (62-67), with the subscription and the orders it has submitted
Underlyings == {"SPX", "NDX"}

MaxPairOrders == 8

NewInstance ==
    [subscribed |-> FALSE, option_chain |-> None, is_position_opened |-> FALSE,
     entry_price |-> 0, max_profit |-> 0, orders |-> <<>>]

\* the attributes with option_chain kept on the class, shared by the instances
SetAttributes_chain_on_class(insts, u, s) ==
    [v \in DOMAIN insts |->
        IF v = u THEN s ELSE [insts[v] EXCEPT !.option_chain = s.option_chain]]

\* self.<attribute> = ...: every attribute a handler assigns is created on
\* self in __init__; the class body holds no data attribute
SetAttributes(insts, u, s) == [insts EXCEPT ![u] = s]

\* the legs name options of the instance's own underlying
\* (self.instrument_id.symbol at 240 and 252)
OfUnderlying(u, legs) ==
    [i \in DOMAIN legs |-> [legs[i] EXCEPT !.instrument_id.symbol = u]]

\* the handlers, as functions of the instance they are called on
instance_on_start(s, chain) == [s EXCEPT !.subscribed = TRUE, !.option_chain = chain]

instance_check_entry_signals(s, u, close) ==
    IF s.is_position_opened THEN s
    ELSE LET k == FrameworkStrikes(close, DefaultConfig)
             b == NextBatch(s.orders)
             ts == <<0, 0, 0, 0>>
             qty == DefaultConfig.trade_size
         IN  [s EXCEPT !.orders = @
                \o OfUnderlying(u, sell_put_spread(s.option_chain, ts, k.short_put, k.long_put, qty, b))
                \o OfUnderlying(u, sell_call_spread(s.option_chain, ts, k.short_call, k.long_call, qty, b))]

instance_check_exit_signals(s, flat, pnl) ==
    IF /\ s.is_position_opened
       /\ ~flat
       /\ (ProfitTargetReached(pnl, s.max_profit) \/ StopLossHit(pnl, s.max_profit))
    THEN [s EXCEPT !.orders = close_all_positions(@), !.is_position_opened = FALSE]
    ELSE s

instance_on_bar(s, u, close, flat, pnl) ==
    IF ~Truthy(s.option_chain) THEN s
    ELSE IF flat THEN instance_check_entry_signals(s, u, close)
    ELSE instance_check_exit_signals(s, flat, pnl)

instance_on_stop(s) ==
    [s EXCEPT !.orders = close_all_positions(cancel_all_orders(@)), !.subscribed = FALSE]

instance_on_reset(s) ==
    [s EXCEPT !.option_chain = None, !.is_position_opened = FALSE,
              !.entry_price = 0, !.max_profit = 0]

\* the gateway's fill of the instance's oldest working order
instance_acknowledged(s) ==
    [s EXCEPT !.orders = ApplyEvent(@, Oldest(@), "FILLED")]

\* one event handled by the instance of underlying u, which ends in state s
Deliver(u, s) ==
    /\ Len(s.orders) <= MaxPairOrders
    /\ instances' = SetAttributes(instances, u, s)
    /\ delivered_to' = u
    /\ UNCHANGED <<strategy_vars, select_vars, macd, talib>>

PairStart ==
    \E u \in Underlyings, chain \in {None, Chain(<<1>>)} :
        /\ ~instances[u].subscribed
        /\ Deliver(u, instance_on_start(instances[u], chain))

PairBar ==
    \E u \in Underlyings, close \in Prices, flat \in BOOLEAN :
    \E pnl \in (IF flat THEN {0} ELSE Pnls) :
        /\ instances[u].subscribed
        /\ Deliver(u, instance_on_bar(instances[u], u, close, flat, pnl))

PairStop ==
    \E u \in Underlyings :
        /\ instances[u].subscribed
        /\ Deliver(u, instance_on_stop(instances[u]))

PairReset ==
    \E u \in Underlyings :
        /\ ~instances[u].subscribed
        /\ Deliver(u, instance_on_reset(instances[u]))

PairAcknowledged ==
    \E u \in Underlyings :
        /\ Working(instances[u].orders) /= {}
        /\ Deliver(u, instance_acknowledged(instances[u]))

PairInit ==
    /\ program = "framework"
    /\ config = DefaultConfig
    /\ subscribed = FALSE
    /\ option_chain = None
    /\ is_position_opened = FALSE
    /\ entry_price = 0
    /\ max_profit = 0
    /\ position_open = FALSE
    /\ orders = <<>>
    /\ now = 0
    /\ last = [op |-> "init", flat |-> TRUE, pnl |-> 0]
    /\ sel_in = NoSelection
    /\ sel_out = NoStrikes
    /\ instances = [u \in Underlyings |-> NewInstance]
    /\ delivered_to = NoUnderlying
    /\ MacdIdle
    /\ TalibIdle

PairNext ==
    \/ PairStart
    \/ PairBar
    \/ PairStop
    \/ PairReset
    \/ PairAcknowledged

PairSpec == PairInit /\ [][PairNext]_vars

-----------------------------------------------------------------------------
(* MACDStrategy of run_iron_condor.py                                       *)
(*                                                                         *)
(* The MACD value and the entry threshold are counted in units of 0.00001, *)
(* order quantities in units of trade_size.  The indicator, the venue and  *)
(* the position cache are framework objects: the indicator hands over any  *)
(* value once it has seen slow_period ticks, the venue fills the market    *)
(* orders in the order they were submitted and nets them into one position *)
(* per instrument, and self.position is the cache's position object, whose *)
(* side follows the fills.                                                 *)

MaxMacdOrders == 4

\* MACDConfig, with a short warm-up
MacdConfig == [fast_period |-> 1, slow_period |-> 2, trade_size |-> 1, entry_threshold |-> 10]

\* macd.value after a tick: beyond, at and inside the thresholds, and zero
MacdValues == {-20, -10, 0, 10, 20}

\* PositionSide of a net quantity
Side(net) == IF net > 0 THEN "LONG" ELSE IF net < 0 THEN "SHORT" ELSE "FLAT"

\* self.position as the handlers read it: None until a PositionOpened event
\* has been handled, the cache's position afterwards
TrackedSide(m) == IF m.tracked THEN Side(m.net) ELSE "NONE"

EntryOrder(side) == [kind |-> "entry", side |-> side, quantity |-> MacdConfig.trade_size]

\* close_position: a reduce-only market order against the position's quantity
CloseOrder(net) ==
    [kind |-> "close", side |-> IF net > 0 THEN "SELL" ELSE "BUY",
     quantity |-> IF net > 0 THEN net ELSE -net]

\* check_for_entry: the orders it submits
check_for_entry(value, side) ==
    IF value > MacdConfig.entry_threshold
    THEN IF side = "LONG" THEN <<>> ELSE <<EntryOrder("BUY")>>
    ELSE IF value < -MacdConfig.entry_threshold
    THEN IF side = "SHORT" THEN <<>> ELSE <<EntryOrder("SELL")>>
    ELSE <<>>

\* check_for_exit with the two sides exchanged
check_for_exit_sides_swapped(value, side, net) ==
    IF value >= 0
    THEN IF side = "LONG" THEN <<CloseOrder(net)>> ELSE <<>>
    ELSE IF side = "SHORT" THEN <<CloseOrder(net)>> ELSE <<>>

\* check_for_exit: the close it issues
check_for_exit(value, side, net) ==
    IF value >= 0
    THEN IF side = "SHORT" THEN <<CloseOrder(net)>> ELSE <<>>
    ELSE IF side = "LONG" THEN <<CloseOrder(net)>> ELSE <<>>

\* on_quote_tick after the indicator update: nothing while it warms up, then
\* check_for_entry followed by check_for_exit
on_quote_tick_orders(initialized, value, side, net) ==
    IF ~initialized THEN <<>>
    ELSE check_for_entry(value, side) \o check_for_exit(value, side, net)

NewMacd ==
    [by |-> "macd", running |-> FALSE, ticks |-> 0, value |-> 0, tracked |-> FALSE,
     net |-> 0, working |-> <<>>, submitted |-> 0, side_at_tick |-> "NONE", issued |-> <<>>]

MacdStep(m) ==
    /\ macd' = m
    /\ UNCHANGED <<strategy_vars, select_vars, instances, delivered_to, talib>>

macd_on_start ==
    /\ ~macd.running
    /\ MacdStep([macd EXCEPT !.running = TRUE])

\* close_all_positions(self.instrument_id), unsubscribe_quote_ticks
macd_on_stop ==
    /\ macd.running
    /\ LET closing == IF macd.net = 0 THEN <<>> ELSE <<CloseOrder(macd.net)>>
       IN  /\ macd.submitted + Len(closing) <= MaxMacdOrders
           /\ MacdStep([macd EXCEPT !.running = FALSE,
                                     !.working = @ \o closing,
                                     !.submitted = @ + Len(closing)])

on_quote_tick ==
    /\ macd.running
    /\ \E value \in MacdValues :
          LET seen == IF macd.ticks < MacdConfig.slow_period THEN macd.ticks + 1 ELSE macd.ticks
              side == TrackedSide(macd)
              issued == on_quote_tick_orders(seen >= MacdConfig.slow_period, value, side, macd.net)
          IN  /\ macd.submitted + Len(issued) <= MaxMacdOrders
              /\ MacdStep([macd EXCEPT !.ticks = seen,
                                        !.value = value,
                                        !.side_at_tick = side,
                                        !.issued = issued,
                                        !.working = @ \o issued,
                                        !.submitted = @ + Len(issued)])

\* a fill of an entry order moves the net position by its quantity; a
\* reduce-only close takes off what is left of the position on its side
NetAfterFill(net, o) ==
    IF o.kind = "entry"
    THEN (IF o.side = "BUY" THEN net + o.quantity ELSE net - o.quantity)
    ELSE IF o.side = "BUY" /\ net < 0
    THEN (IF o.quantity < -net THEN net + o.quantity ELSE 0)
    ELSE IF o.side = "SELL" /\ net > 0
    THEN (IF o.quantity < net THEN net - o.quantity ELSE 0)
    ELSE net

\* on_event: PositionOpened makes self.position the cache's position
on_event(tracked, opened) == tracked \/ opened

\* the venue fills the oldest working order; a fill that opens a position is
\* followed by its PositionOpened event
MacdOrderFilled ==
    /\ macd.working /= <<>>
    /\ LET net == NetAfterFill(macd.net, Head(macd.working))
       IN  MacdStep([macd EXCEPT !.working = Tail(@),
                                 !.net = net,
                                 !.tracked = on_event(@, macd.net = 0 /\ net /= 0)])

MacdInit ==
    /\ program = "framework"
    /\ config = DefaultConfig
    /\ subscribed = FALSE
    /\ option_chain = None
    /\ is_position_opened = FALSE
    /\ entry_price = 0
    /\ max_profit = 0
    /\ position_open = FALSE
    /\ orders = <<>>
    /\ now = 0
    /\ last = [op |-> "init", flat |-> TRUE, pnl |-> 0]
    /\ sel_in = NoSelection
    /\ sel_out = NoStrikes
    /\ PairIdle
    /\ macd = NewMacd
    /\ TalibIdle

MacdNext ==
    \/ macd_on_start
    \/ macd_on_stop
    \/ on_quote_tick
    \/ MacdOrderFilled

MacdSpec == MacdInit /\ [][MacdNext]_vars

-----------------------------------------------------------------------------
(* TALibStrategy of talib_strategy.py                                       *)
(*                                                                         *)
(* BETA_5 and the beta limits are counted in tenths.  The indicator        *)
(* manager is a framework object: it is initialized once it has been fed   *)
(* enough bars, and its values are inputs of each bar.                     *)

MaxTalibOrders == 2

\* TALibStrategyConfig: min_beta 0.5, max_beta 2.0
TalibConfig == [min_beta |-> 5, max_beta |-> 20]

\* the bars the indicator manager needs before indicators_initialized()
TalibWarmUp == [bars |-> 2]

MinVolume == 100000

\* a bar with the indicator values computed from it: below, at and above
\* each limit the handler tests
TalibBars ==
    [single_price : BOOLEAN,
     volume : {MinVolume - 1, MinVolume},
     beta : {TalibConfig.min_beta - 1, TalibConfig.min_beta,
             TalibConfig.max_beta, TalibConfig.max_beta + 1},
     ema_10 : {1, 2, 3},
     ema_20 : {2},
     ema_10_before : {1, 2, 3},
     ema_20_before : {2},
     rsi_14 : {70, 71}]

NoBar ==
    [single_price |-> TRUE, volume |-> 0, beta |-> 0, ema_10 |-> 2, ema_20 |-> 2,
     ema_10_before |-> 2, ema_20_before |-> 2, rsi_14 |-> 0]

\* buy / sell: one market order of quantity 1
TalibOrder(side) == [order_side |-> side, quantity |-> 1]

\* on_bar without the volume test
talib_on_bar_no_volume_test(initialized, bar) ==
    IF ~initialized THEN <<>>
    ELSE IF bar.single_price THEN <<>>
    ELSE IF ~(TalibConfig.min_beta <= bar.beta /\ bar.beta <= TalibConfig.max_beta) THEN <<>>
    ELSE IF bar.ema_10 > bar.ema_20 THEN <<TalibOrder("BUY")>>
    ELSE IF /\ bar.ema_10 < bar.ema_20
            /\ bar.ema_10_before >= bar.ema_20_before
            /\ bar.rsi_14 > 70
    THEN <<TalibOrder("SELL")>>
    ELSE <<>>

\* on_bar: the orders it submits
talib_on_bar(initialized, bar) ==
    IF ~initialized THEN <<>>
    ELSE IF bar.single_price THEN <<>>
    ELSE IF ~(TalibConfig.min_beta <= bar.beta /\ bar.beta <= TalibConfig.max_beta) THEN <<>>
    ELSE IF bar.volume < MinVolume THEN <<>>
    ELSE IF bar.ema_10 > bar.ema_20 THEN <<TalibOrder("BUY")>>
    ELSE IF /\ bar.ema_10 < bar.ema_20
            /\ bar.ema_10_before >= bar.ema_20_before
            /\ bar.rsi_14 > 70
    THEN <<TalibOrder("SELL")>>
    ELSE <<>>

NewTalib ==
    [by |-> "talib", running |-> FALSE, bars |-> 0, bar |-> NoBar,
     issued |-> <<>>, orders |-> <<>>]

TalibStep(t) ==
    /\ talib' = t
    /\ UNCHANGED <<strategy_vars, select_vars, instances, delivered_to, macd>>

\* on_start: the strategy stops itself when the cache has no instrument
talib_on_start ==
    /\ ~talib.running
    /\ \E found \in BOOLEAN :
          TalibStep([talib EXCEPT !.running = found, !.issued = <<>>])

\* a bar reaches the indicator manager first, then on_bar
talib_bar ==
    /\ talib.running
    /\ \E bar \in TalibBars :
          LET fed == IF talib.bars < TalibWarmUp.bars THEN talib.bars + 1 ELSE talib.bars
              issued == talib_on_bar(fed >= TalibWarmUp.bars, bar)
          IN  /\ Len(talib.orders) + Len(issued) <= MaxTalibOrders
              /\ TalibStep([talib EXCEPT !.bars = fed,
                                         !.bar = bar,
                                         !.issued = issued,
                                         !.orders = @ \o issued])

\* on_stop: unsubscribe_bars
talib_on_stop ==
    /\ talib.running
    /\ TalibStep([talib EXCEPT !.running = FALSE, !.issued = <<>>])

TalibInit ==
    /\ program = "framework"
    /\ config = DefaultConfig
    /\ subscribed = FALSE
    /\ option_chain = None
    /\ is_position_opened = FALSE
    /\ entry_price = 0
    /\ max_profit = 0
    /\ position_open = FALSE
    /\ orders = <<>>
    /\ now = 0
    /\ last = [op |-> "init", flat |-> TRUE, pnl |-> 0]
    /\ sel_in = NoSelection
    /\ sel_out = NoStrikes
    /\ PairIdle
    /\ MacdIdle
    /\ talib = NewTalib

TalibNext ==
    \/ talib_on_start
    \/ talib_bar
    \/ talib_on_stop

TalibSpec == TalibInit /\ [][TalibNext]_vars

\* A configuration whose put wing reaches below zero at the bar prices of the
\* model (4500.30 - 4495 - 10 < 0), trading two contracts a leg; every field
\* is positive, so nothing about it is out of the ordinary for the config type
DeepOtmConfig ==
    [call_width |-> 10, put_width |-> 10, otm_distance |-> 4495, trade_size |-> 2]

TradedConfigs == {DefaultConfig, DeepOtmConfig}

\* The runs started with either configuration, every leg answered with a fill
EntryInit ==
    /\ program \in {"framework", "standalone"}
    /\ config \in TradedConfigs
    /\ subscribed = FALSE
    /\ option_chain = None
    /\ is_position_opened = FALSE
    /\ entry_price = 0
    /\ max_profit = 0
    /\ position_open = FALSE
    /\ orders = <<>>
    /\ now = 0
    /\ last = [op |-> "init", flat |-> TRUE, pnl |-> 0]
    /\ sel_in = NoSelection
    /\ sel_out = NoStrikes
    /\ PairIdle
    /\ MacdIdle
    /\ TalibIdle

EntrySpec == EntryInit /\ [][AckNext]_vars

-----------------------------------------------------------------------------
(* Strike selection on its own: the inputs are drawn at the start, and each  *)
(* strategy's computation is applied to them                                *)

\* reference prices in cents, five cents apart, from 100.00 upwards: every
\* position between two strikes, the two ties (x.25, x.75) included
SelectPrices == {10000 + 5 * k : k \in 0..MaxPriceStep}

\* the config does not validate its fields: zero and negative values are accepted
SelectConfigs ==
    [call_width : (-1)..MaxParam, put_width : (-1)..MaxParam,
     otm_distance : (-1)..MaxParam, trade_size : {1}]

Tagged(by, k) ==
    [by |-> by, short_put |-> k.short_put, long_put |-> k.long_put,
     short_call |-> k.short_call, long_call |-> k.long_call]

SelectInit ==
    /\ program = "framework"
    /\ config = DefaultConfig
    /\ subscribed = FALSE
    /\ option_chain = None
    /\ is_position_opened = FALSE
    /\ entry_price = 0
    /\ max_profit = 0
    /\ position_open = FALSE
    /\ orders = <<>>
    /\ now = 0
    /\ last = [op |-> "init", flat |-> TRUE, pnl |-> 0]
    /\ sel_in \in [price : SelectPrices, config : SelectConfigs]
    /\ sel_out = NoStrikes
    /\ PairIdle
    /\ MacdIdle
    /\ TalibIdle

SelectFramework ==
    /\ sel_out.by = "none"
    /\ sel_out' = Tagged("framework", FrameworkStrikes(sel_in.price, sel_in.config))
    /\ UNCHANGED <<strategy_vars, sel_in, other_vars>>

SelectStandalone ==
    /\ sel_out.by = "none"
    /\ sel_out' = Tagged("standalone", StandaloneStrikes(sel_in.price, sel_in.config))
    /\ UNCHANGED <<strategy_vars, sel_in, other_vars>>

SelectNext ==
    \/ SelectFramework
    \/ SelectStandalone

SelectSpec == SelectInit /\ [][SelectNext]_vars

-----------------------------------------------------------------------------
(* The lifecycle of the spread, read off the orders *)

OpeningLegs(ords) == {i \in 1..Len(ords) : ~ords[i].reduce_only}
ClosingLegs(ords) == {i \in 1..Len(ords) : ords[i].reduce_only}

OpenPositions(ords) ==
    {ords[i].instrument_id : i \in {j \in 1..Len(ords) :
                                      NetPosition(ords, ords[j].instrument_id) /= 0}}

\* Opening: an opening leg is unacknowledged; Closing: an offsetting order is;
\* Open: a position is held and no order is working; Flat: nothing is held
LifecycleOf(ords) ==
    IF \E i \in OpeningLegs(ords) : ords[i].status = "SUBMITTED" THEN "Opening"
    ELSE IF \E i \in ClosingLegs(ords) : ords[i].status = "SUBMITTED" THEN "Closing"
    ELSE IF OpenPositions(ords) /= {} THEN "Open"
    ELSE "Flat"

Lifecycle == LifecycleOf(orders)

\* one whole spread is held: every opening leg is filled and no close was issued
SpreadOpen ==
    /\ Lifecycle = "Open"
    /\ ClosingLegs(orders) = {}
    /\ \A i \in OpeningLegs(orders) : orders[i].status = "FILLED"

\* the orders one handler invocation submitted, in submission order
BatchOrders(ords, b, reduce) ==
    SelectSeq(ords, LAMBDA o : o.batch = b /\ o.reduce_only = reduce)

Batches(ords, reduce) ==
    {ords[i].batch : i \in {j \in 1..Len(ords) : ords[j].reduce_only = reduce}}

LegRights == <<"P", "P", "C", "C">>
OpenSides == <<"SELL", "BUY", "SELL", "BUY">>
CloseSides == <<"BUY", "SELL", "BUY", "SELL">>

\* four orders: short put, long put, short call, long call, with the given sides
FourLegsInOrder(legs, sides) ==
    /\ Len(legs) = 4
    /\ \A k \in 1..4 :
          /\ legs[k].instrument_id.right = LegRights[k]
          /\ legs[k].order_side = sides[k]

\* the handler that just ran submitted offsetting orders
CloseIssued(before, after) ==
    /\ Len(after) > Len(before)
    /\ \A i \in (Len(before) + 1)..Len(after) : after[i].reduce_only

-----------------------------------------------------------------------------
(* Claims about the lifecycle, under Spec *)

\* C1: while the opening legs are not all acknowledged (Opening), a further
\* bar submits nothing: the spread is opened once, with four leg orders
C1_NoSecondOpenWhileOpening ==
    [][(Lifecycle = "Opening" /\ last'.op = "on_bar") => orders' = orders]_vars

\* C2: entry while Flat leads to Opening, the last acknowledgement to Open, a
\* P&L update at 0.5 x max_profit to Closing, the last closing
\* acknowledgement to Flat, with nothing in between
C2_FlatOpeningOpenClosingFlat ==
    [][program = "framework" =>
       /\ (Lifecycle = "Flat" /\ last'.op = "on_bar" /\ option_chain.held /\ last'.flat)
          => LifecycleOf(orders') = "Opening"
       /\ (Lifecycle = "Opening" /\ last'.op = "event"
             /\ \A i \in OpeningLegs(orders') : orders'[i].status = "FILLED")
          => LifecycleOf(orders') = "Open"
       /\ (SpreadOpen /\ last'.op = "on_bar" /\ option_chain.held /\ ~last'.flat
             /\ ProfitTargetReached(last'.pnl, max_profit))
          => LifecycleOf(orders') = "Closing"
       /\ (Lifecycle = "Closing" /\ last'.op = "event"
             /\ \A i \in ClosingLegs(orders') : orders'[i].status = "FILLED")
          => LifecycleOf(orders') = "Flat"]_vars

\* C3: on a P&L update of an open position the close is issued exactly when
\* unrealized_pnl >= max_profit * 0.5 or unrealized_pnl <= -max_profit * 2.0
C3_CloseIffThreshold ==
    [][(program = "framework" /\ SpreadOpen /\ last'.op = "on_bar"
          /\ option_chain.held /\ ~last'.flat)
       => (CloseIssued(orders, orders')
             <=> (ProfitTargetReached(last'.pnl, max_profit)
                    \/ StopLossHit(last'.pnl, max_profit)))]_vars

\* C4: once a leg of an open operation is rejected, no other leg of that
\* operation is left working: the operation is abandoned
C4_RejectedLegAbandonsSpread ==
    \A i \in OpeningLegs(orders) :
        orders[i].status = "REJECTED"
        => \A j \in OpeningLegs(orders) :
              orders[j].batch = orders[i].batch => orders[j].status /= "SUBMITTED"

\* C5: every open operation submits exactly four leg orders, in the order
\* short put SELL, long put BUY, short call SELL, long call BUY
C5_OpenSubmitsFourLegsInOrder ==
    \A b \in Batches(orders, FALSE) :
        FourLegsInOrder(BatchOrders(orders, b, FALSE), OpenSides)

\* C6: every close operation submits exactly four offsetting orders, one per
\* leg, in the order short put, long put, short call, long call
C6_CloseSubmitsFourLegsInOrder ==
    \A b \in Batches(orders, TRUE) :
        FourLegsInOrder(BatchOrders(orders, b, TRUE), CloseSides)

\* C7: a bar processed while no option-chain snapshot is held submits no
\* order and leaves the strategy state unchanged
C7_NoChainNoAction ==
    [][(last'.op = "on_bar" /\ ~option_chain.held)
       => UNCHANGED <<orders, is_position_opened, position_open, entry_price,
                      max_profit, option_chain>>]_vars

\* C8: when the held snapshot has no expiry later than the current time, an
\* entry signal submits no leg order
C8_NoExpiryNoEntry ==
    [][(last'.op = "on_bar" /\ option_chain.held
          /\ get_next_monthly_expiry(option_chain, now) = 0)
       => orders' = orders]_vars

\* C9: after a stop no opening leg is left unacknowledged, every open
\* position has its offsetting order, and no chain snapshot is held
C9_StopFlattensAndDropsChain ==
    (program = "framework" /\ last.op = "on_stop")
    => /\ \A i \in OpeningLegs(orders) : orders[i].status /= "SUBMITTED"
       /\ \A inst \in OpenPositions(orders) :
             \E i \in ClosingLegs(orders) :
                orders[i].instrument_id = inst /\ orders[i].status = "SUBMITTED"
       /\ ~option_chain.held

-----------------------------------------------------------------------------
(* Claims about strike selection, under SelectSpec *)

StrikeOrdering(price, k) ==
    /\ k.long_put < k.short_put
    /\ k.short_put <= price
    /\ price <= k.short_call
    /\ k.short_call < k.long_call

WidthsPositive(cfg) == cfg.put_width > 0 /\ cfg.call_width > 0

\* C10 as stated: for every reference price and every configuration with
\* otm_distance >= 0 and positive widths, the strikes computed at entry satisfy
\* long_put < short_put <= reference_price <= short_call < long_call
C10_OrderingFromZeroDistance ==
    (sel_out.by /= "none" /\ WidthsPositive(sel_in.config)
        /\ sel_in.config.otm_distance >= 0)
    => StrikeOrdering(sel_in.price, sel_out)

\* C10 amended: the ordering holds for every reference price and every
\* configuration with positive widths and otm_distance >= 1 (a whole number of
\* dollars, the strike interval being the fixed 0.5)
C10_OrderingFromUnitDistance ==
    (sel_out.by /= "none" /\ WidthsPositive(sel_in.config)
        /\ sel_in.config.otm_distance >= 1)
    => StrikeOrdering(sel_in.price, sel_out)

\* the framework strategy has selected strikes for a price on a tie between
\* two strikes, with positive widths and a positive distance
C10_Witness ==
    /\ sel_out.by = "framework"
    /\ WidthsPositive(sel_in.config)
    /\ sel_in.config.otm_distance >= 1
    /\ sel_in.price % StrikeInterval = 25
    /\ sel_out.short_put /= sel_in.price - 100 * sel_in.config.otm_distance

\* round_to_interval as the strike selector is specified: m is a multiple of
\* the strike interval nearest to x, the even multiple on a tie
NearestMultipleTiesEven(x, m) ==
    LET d == IF x >= m THEN x - m ELSE m - x
    IN  /\ m % StrikeInterval = 0
        /\ 2 * d <= StrikeInterval
        /\ (2 * d = StrikeInterval => (m \div StrikeInterval) % 2 = 0)

\* C11: the strikes computed at entry are short_put = round_to_interval(price
\* - otm_distance), long_put = short_put - put_width, short_call =
\* round_to_interval(price + otm_distance), long_call = short_call +
\* call_width, rounding to the nearest multiple of the strike interval with
\* ties to the even multiple
C11_StrikesRoundedToInterval ==
    (sel_out.by \in {"framework", "standalone"} /\ WidthsPositive(sel_in.config)
        /\ sel_in.config.otm_distance >= 0)
    => /\ NearestMultipleTiesEven(sel_in.price - 100 * sel_in.config.otm_distance,
                                  sel_out.short_put)
       /\ sel_out.long_put = sel_out.short_put - 100 * sel_in.config.put_width
       /\ NearestMultipleTiesEven(sel_in.price + 100 * sel_in.config.otm_distance,
                                  sel_out.short_call)
       /\ sel_out.long_call = sel_out.short_call + 100 * sel_in.config.call_width

-----------------------------------------------------------------------------
(* Claims about the acknowledgements *)

Unacknowledged(ords, legs) == {i \in legs : ords[i].status = "SUBMITTED"}

\* the strategy's own record of the position: the flag either class keeps
MarkedOpen == is_position_opened \/ position_open

\* C12: the position is marked open only once all four opening legs are
\* acknowledged, and the mark is taken back (Flat) only once every closing
\* leg is acknowledged
C12_OpenAndFlatOnlyAfterAcks ==
    [][/\ (~MarkedOpen /\ MarkedOpen')
          => Unacknowledged(orders', OpeningLegs(orders')) = {}
       /\ (MarkedOpen /\ ~MarkedOpen')
          => Unacknowledged(orders', ClosingLegs(orders')) = {}]_vars

LegPremium(o) == IF o.order_side = "SELL" THEN 2 ELSE -1

\* premium received minus premium paid over the filled opening legs
RECURSIVE EntryCredit(_)
EntryCredit(ords) ==
    IF ords = <<>> THEN 0
    ELSE (IF Head(ords).status = "FILLED" /\ ~Head(ords).reduce_only
          THEN LegPremium(Head(ords)) ELSE 0) + EntryCredit(Tail(ords))

\* C15: whenever the exit condition is evaluated on an open position whose
\* fills have settled, max_profit is the entry credit of that position
C15_MaxProfitIsEntryCredit ==
    [][(program = "framework" /\ SpreadOpen /\ last'.op = "on_bar"
          /\ option_chain.held /\ ~last'.flat)
       => max_profit = EntryCredit(orders)]_vars

\* C16: in every reachable state the position is marked open only if the
\* open operation has submitted all four of its orders
C16_OpenOnlyAfterFourSubmissions ==
    MarkedOpen
    => /\ Batches(orders, FALSE) /= {}
       /\ \A b \in Batches(orders, FALSE) : Len(BatchOrders(orders, b, FALSE)) = 4

\* the standalone strategy has just entered: the mark is set and its four
\* orders are submitted, none answered yet
C16_Witness ==
    /\ program = "standalone"
    /\ position_open
    /\ last.op = "on_bar"
    /\ Len(orders) = 4
    /\ \A i \in 1..Len(orders) : orders[i].status = "SUBMITTED"

\* Bars keep arriving while the strategy is subscribed and the clock keeps
\* advancing; nothing obliges the gateway to answer an order
FairSpec ==
    Spec /\ WF_vars(Tick) /\ WF_vars(on_bar) /\ WF_vars(standalone_on_bar)

\* C13: the machine never stays in Opening or Closing forever: legs left
\* unacknowledged are timed out and cancelled, and a stable state (Flat or
\* Open) is reached again
C13_OpeningAndClosingEnd ==
    (Lifecycle \in {"Opening", "Closing"}) ~> (Lifecycle \in {"Flat", "Open"})

-----------------------------------------------------------------------------
(* Claims about the configuration, under ConfigSpec *)

\* what the strike selector requires of a configuration (the strike interval
\* is the fixed 0.5)
ValidConfiguration(cfg) ==
    cfg.put_width > 0 /\ cfg.call_width > 0 /\ cfg.otm_distance >= 0

\* C17: a configuration with put_width <= 0, call_width <= 0 or
\* otm_distance < 0 is refused at construction, so no leg order is ever
\* submitted under it
C17_InvalidConfigurationSubmitsNothing ==
    ~ValidConfiguration(config) => orders = <<>>

-----------------------------------------------------------------------------
(* Claims about the chain snapshot, under RefreshSpec *)

-----------------------------------------------------------------------------
(* Claims about expiry selection, under ExpirySpec *)

\* the expiries of the snapshot later than as_of
Later(expiries, as_of) == {expiries[i] : i \in {j \in DOMAIN expiries : expiries[j] > as_of}}

\* C19: expiry selection returns the earliest expiry of the snapshot strictly
\* later than as_of, in whatever order the snapshot lists them (19 Jan, 16
\* Feb, 15 Mar as days 1, 3, 4 with as_of 20 Jan, day 2, gives 16 Feb); an
\* expiry equal to as_of is never selected
C19_EarliestExpiryAfterAsOf ==
    sel_out.by = "expiry"
    => LET later == Later(sel_in.expiries, sel_in.as_of)
       IN  /\ later /= {}
              => /\ sel_out.expiry \in later
                 /\ \A e \in later : sel_out.expiry <= e
           /\ sel_out.expiry /= 0 => sel_out.expiry > sel_in.as_of
           /\ sel_in = [expiries |-> <<1, 3, 4>>, as_of |-> 2] => sel_out.expiry = 3

\* an expiry was selected from a snapshot that lists its expiries out of
\* order and holds one equal to as_of
C19_Witness ==
    /\ sel_out.by = "expiry"
    /\ sel_out.expiry /= 0
    /\ \E i, j \in DOMAIN sel_in.expiries : i < j /\ sel_in.expiries[i] > sel_in.expiries[j]
    /\ \E i \in DOMAIN sel_in.expiries : sel_in.expiries[i] = sel_in.as_of

-----------------------------------------------------------------------------
(* Claims about the option identifier, under FormatSpec *)

\* the strike as the resolver's fixture writes it (00150.000): five digits,
\* the point, three decimals
FiveAndThree(strike) ==
    ZeroPad(DecimalDigits(strike \div 100), 5) \o "."
        \o ZeroPad(DecimalDigits((strike % 100) * 10), 3)

\* C20: the identifier is the symbol, the expiry as YYYYMMDD, C or P, the
\* strike in the fixed format of the fixture, a point and the venue; (AAPL,
\* 2024-01-19, call, 150.0, SMART) gives exactly AAPL20240119C00150.000.SMART
C20_IdentifierFormat ==
    sel_out.by = "id"
    => /\ sel_out.id = sel_in.symbol \o strftime_Ymd(sel_in.expiry) \o sel_in.right
                          \o FiveAndThree(sel_in.strike) \o "." \o "SMART"
       /\ sel_in = [symbol |-> "AAPL", expiry |-> [year |-> 2024, month |-> 1, day |-> 19],
                    right |-> "C", strike |-> 15000]
          => sel_out.id = "AAPL20240119C00150.000.SMART"

-----------------------------------------------------------------------------
(* Strikes that name no listed option *)

\* a strike an option can be listed at: positive, on the strike grid
ValidStrike(strike) == strike > 0 /\ strike % StrikeInterval = 0

\* the orders that name an option (the standalone strategy names the underlying)
OptionOrders == {i \in DOMAIN orders : orders[i].instrument_id.right \in {"P", "C"}}

\* C21: resolving an identifier for a strike that is non-positive or off the
\* strike interval fails, so no leg order is ever submitted for an option with
\* such a strike (as when price - otm_distance - put_width <= 0)
C21_NoOrderOnInvalidStrike ==
    \A i \in OptionOrders : ValidStrike(orders[i].instrument_id.strike)

-----------------------------------------------------------------------------
(* Leg quantities *)

\* C22: all four leg orders of one spread carry the same quantity, the
\* configured trade size, for every entry of every run
C22_LegsCarryTradeSize ==
    \A i \in DOMAIN orders :
        ~orders[i].reduce_only => orders[i].quantity = config.trade_size

\* C22 witness: a spread of four legs entered with a trade size of two
C22_Witness ==
    /\ config.trade_size = 2
    /\ \E b \in Batches(orders, FALSE) :
           /\ Len(BatchOrders(orders, b, FALSE)) = 4
           /\ \A k \in 1..4 : BatchOrders(orders, b, FALSE)[k].quantity = 2

-----------------------------------------------------------------------------
(* Instances of different underlyings *)

-----------------------------------------------------------------------------
(* The position flag of the framework strategy *)

\* a spread has been entered and nothing has been issued to close it
EntryOutstanding == Batches(orders, FALSE) /= {} /\ Batches(orders, TRUE) = {}

\* C25: in the framework strategy, once check_entry_signals has submitted the
\* four leg orders is_position_opened is true, and stays true until an exit
\* closes the position: it is false only when no spread entry is outstanding
C25_OpenedWhileEntryOutstanding ==
    (program = "framework" /\ EntryOutstanding) => is_position_opened

-----------------------------------------------------------------------------
(* One expiry per spread *)

\* the expiries named by the legs of one entry
EntryExpiries(b) ==
    {BatchOrders(orders, b, FALSE)[k].instrument_id.expiry :
        k \in DOMAIN BatchOrders(orders, b, FALSE)}

\* C26: the four leg orders of one entry all reference the same expiry, even
\* though the expiry is looked up against the clock once for each leg: a clock
\* tick that crosses an expiry between two leg submissions does not split the
\* spread across expiries
C26_OneExpiryPerEntry ==
    program = "framework"
    => \A b \in Batches(orders, FALSE) : Cardinality(EntryExpiries(b)) <= 1

-----------------------------------------------------------------------------
(* Four distinct option instruments *)

\* the instruments named by the legs of one entry
EntryInstruments(b) ==
    {BatchOrders(orders, b, FALSE)[k].instrument_id :
        k \in DOMAIN BatchOrders(orders, b, FALSE)}

\* C27: for put_width > 0 and call_width > 0, the four leg orders of one
\* entry name four pairwise-distinct option instruments, each determined by
\* its option type and strike, and none of them is the underlying itself
C27_FourDistinctOptionInstruments ==
    WidthsPositive(config)
    => \A b \in Batches(orders, FALSE) :
          Len(BatchOrders(orders, b, FALSE)) = 4
          => /\ Cardinality(EntryInstruments(b)) = 4
             /\ Cardinality({<<id.right, id.strike>> : id \in EntryInstruments(b)}) = 4
             /\ UnderlyingId \notin EntryInstruments(b)

-----------------------------------------------------------------------------
(* The standalone strategy enters once *)

\* C28: in the standalone strategy position_open never returns to false once
\* set, so over any sequence of bars the four entry orders are submitted at
\* most once (at most four orders in a whole run) and it never enters again
C28_StandaloneEntersOnce ==
    [][program = "standalone"
       => /\ position_open => position_open'
          /\ Len(orders') > Len(orders) => ~position_open /\ orders = <<>>
          /\ Len(orders') <= 4]_vars

\* C28 witness: a bar handled after the four entry orders were filled, with
\* the flag still set and no further order
C28_Witness ==
    /\ program = "standalone"
    /\ position_open
    /\ last.op = "on_bar"
    /\ Len(orders) = 4
    /\ \A i \in DOMAIN orders : orders[i].status = "FILLED"

-----------------------------------------------------------------------------
(* Reset *)

\* the state attributes as __init__ and on_reset leave them
AsConstructed(chain, opened, price, profit) ==
    chain = None /\ ~opened /\ price = 0 /\ profit = 0

\* C29: on_reset, applied in any reachable state, restores the strategy's
\* initial state (no chain snapshot held, is_position_opened false,
\* entry_price 0, max_profit 0), and a bar handled in that state submits no
\* order
C29_ResetRestoresInitialState ==
    [][/\ last'.op = "on_reset"
          => AsConstructed(option_chain', is_position_opened', entry_price', max_profit')
       /\ (/\ last'.op = "on_bar"
           /\ AsConstructed(option_chain, is_position_opened, entry_price, max_profit))
          => orders' = orders]_vars

\* C29 witness: on_reset has just run in a strategy that had loaded a chain
\* and traded on it
C29_Witness ==
    /\ last.op = "on_reset"
    /\ orders /= <<>>
    /\ AsConstructed(option_chain, is_position_opened, entry_price, max_profit)

-----------------------------------------------------------------------------
(* Order actions of one quote tick *)

Entries(issued) == {i \in DOMAIN issued : issued[i].kind = "entry"}
Closes(issued) == {i \in DOMAIN issued : issued[i].kind = "close"}

\* the MACD value is beyond the entry threshold against the tracked position
Reversal(value, side) ==
    \/ value > MacdConfig.entry_threshold /\ side = "SHORT"
    \/ value < -MacdConfig.entry_threshold /\ side = "LONG"

\* C30 (as stated): handling one quote tick never issues both an entry order
\* and a close of the tracked position; at most one order action results from
\* one tick, for every MACD value and every side of the tracked position
C30_AtMostOneOrderActionPerTick ==
    macd.by = "macd" => Len(macd.issued) <= 1

\* C30 (amended): one quote tick issues at most one entry order and at most
\* one close, none before the indicator is initialized, and both of them
\* exactly when the MACD value is beyond the entry threshold against the
\* side of the tracked position
C30_EntryAndCloseOnlyOnReversal ==
    macd.by = "macd"
    => /\ Cardinality(Entries(macd.issued)) <= 1
       /\ Cardinality(Closes(macd.issued)) <= 1
       /\ Len(macd.issued) <= 2
       /\ macd.ticks < MacdConfig.slow_period => macd.issued = <<>>
       /\ Len(macd.issued) = 2
          <=> (macd.ticks >= MacdConfig.slow_period /\ Reversal(macd.value, macd.side_at_tick))

\* C30 witness: a tick with the MACD above the threshold while the tracked
\* position is SHORT has issued a BUY entry and the close of the short
C30_Witness ==
    /\ macd.by = "macd"
    /\ macd.value > MacdConfig.entry_threshold
    /\ macd.side_at_tick = "SHORT"
    /\ macd.issued = <<EntryOrder("BUY"), CloseOrder(-1)>>

-----------------------------------------------------------------------------
(* Entry orders in flight *)

\* the entry orders of one side that the venue has not filled yet: their
\* PositionOpened event has not been delivered
EntriesInFlight(side) ==
    {i \in DOMAIN macd.working :
        macd.working[i].kind = "entry" /\ macd.working[i].side = side}

\* C31: while an entry order has been submitted and its PositionOpened event
\* has not yet been delivered, further quote ticks with the MACD still beyond
\* the same threshold submit no second entry order in that direction; and
\* once the tracked position is LONG (SHORT) no BUY (SELL) entry is submitted
C31_NoSecondEntryWhileInFlight ==
    macd.by = "macd"
    => /\ \A side \in {"BUY", "SELL"} : Cardinality(EntriesInFlight(side)) <= 1
       /\ macd.side_at_tick = "LONG" => EntryOrder("BUY") \notin {macd.issued[i] : i \in DOMAIN macd.issued}
       /\ macd.side_at_tick = "SHORT" => EntryOrder("SELL") \notin {macd.issued[i] : i \in DOMAIN macd.issued}

-----------------------------------------------------------------------------
(* Orders of one bar in TALibStrategy *)

\* the bar is turned away before the signals are looked at
TurnedAway(initialized, bar) ==
    \/ ~initialized
    \/ bar.single_price
    \/ bar.beta < TalibConfig.min_beta
    \/ bar.beta > TalibConfig.max_beta
    \/ bar.volume < MinVolume

\* C32: in TALibStrategy each bar results in at most one submitted order, and
\* in none when the indicators are not yet initialized, the bar is
\* single-price, BETA_5 lies outside [min_beta, max_beta], or the bar volume
\* is below 100000
C32_AtMostOneOrderPerBar ==
    [][talib.by = "talib"
       => /\ Len(talib'.orders) <= Len(talib.orders) + 1
          /\ (/\ talib'.bar /= NoBar
              /\ TurnedAway(talib'.bars >= TalibWarmUp.bars, talib'.bar))
             => talib'.orders = talib.orders]_vars

\* C32 witness: a bar at the beta minimum and at the volume minimum, after
\* the warm-up, has submitted one SELL order
C32_Witness ==
    /\ talib.by = "talib"
    /\ talib.bars >= TalibWarmUp.bars
    /\ ~talib.bar.single_price
    /\ talib.bar.beta = TalibConfig.min_beta
    /\ talib.bar.volume = MinVolume
    /\ talib.issued = <<TalibOrder("SELL")>>
    /\ talib.orders /= <<>>

=============================================================================
